---------------------------- MODULE Spec2Model ----------------------------
(***************************************************************************)
(* Model of mupdf/scripts/makenoto.py: the generator that maps the         *)
(* UCDN_SCRIPT_* identifiers of include/mupdf/ucdn.h to the Noto fonts of  *)
(* resources/fonts/noto and prints a switch-case fragment plus two         *)
(* diagnostic reports.                                                     *)
(*                                                                         *)
(* A Python str is modelled as a sequence of one-character strings, so     *)
(* that lower(), capitalize(), split(), replace() and sorted() are         *)
(* computed character by character, as Python computes them.               *)
(***************************************************************************)
EXTENDS Naturals, Sequences, FiniteSets, TLC

VARIABLES
    pc,        \* position of the script: "read", "blacklist", "run", "done", "abort"
    err,       \* the uncaught exception that ended the run, "" while there is none
    header,    \* include/mupdf/ucdn.h as the script finds it
    dirState,  \* resources/fonts/noto when globbed: "ok", "missing", "unreadable"
    listing,   \* the directory's entries in the order the file system lists them
    scripts,   \* the list `scripts`
    bi,        \* index of the next name of `for s in blacklist`
    fonts,     \* the list `fonts`
    lower,     \* the dict `lower`, as its insertion-ordered sequence of <<key, value>>
    unused,    \* the list `unused`
    si,        \* index of the next identifier of `for us in scripts`
    ui,        \* index of the next key of `for f in unused`
    out        \* standard output: the lines printed so far

vars == <<pc, err, header, dirState, listing, scripts, bi, fonts, lower, unused, si, ui, out>>

----------------------------------------------------------------------------
(* Bounds of the model.                                                    *)

\* lines put in front of the blacklisted definitions of the header
MaxExtra == 2
\* entries of the fonts directory
MaxFonts == 3

----------------------------------------------------------------------------
(* Characters and Python's str operations.                                 *)

\* the characters in use, in code point order
Ascii ==
    <<"\n"," ","#","(",")","-",".","/","0","1",":",";","A","B","C","D","E","F","G","H","I","J","K","L","M","N","O","P","Q","R","S","T","U","V","W","X","Y","Z","_","a","b","c","d","e","f","g","h","i","j","k","l","m","n","o","p","q","r","s","t","u","v","w","x","y","z">>

Chars == {Ascii[i] : i \in DOMAIN Ascii}

\* the rank of each character in code point order
OrdTable == [c \in Chars |-> CHOOSE i \in DOMAIN Ascii : Ascii[i] = c]
Ord(c) == OrdTable[c]

IsUpper(c) == Ord(c) >= Ord("A") /\ Ord(c) <= Ord("Z")
IsLower(c) == Ord(c) >= Ord("a") /\ Ord(c) <= Ord("z")

\* str.lower() and str.upper() of one character: a letter moves to the same
\* place of the other alphabet, any other character stays
LowerTable == [c \in Chars |-> IF IsUpper(c) THEN Ascii[Ord(c) - Ord("A") + Ord("a")] ELSE c]
UpperTable == [c \in Chars |-> IF IsLower(c) THEN Ascii[Ord(c) - Ord("a") + Ord("A")] ELSE c]
LowerChar(c) == LowerTable[c]
UpperChar(c) == UpperTable[c]

\* str.lower()
Lower(s) == [i \in DOMAIN s |-> LowerChar(s[i])]

\* str.capitalize(): first character upper-cased, the rest lower-cased
Capitalize(s) == [i \in DOMAIN s |-> IF i = 1 THEN UpperChar(s[i]) ELSE LowerChar(s[i])]

\* str.startswith(p)
StartsWith(s, p) == Len(s) >= Len(p) /\ SubSeq(s, 1, Len(p)) = p

\* s[i:] for a 1-based i
From(s, i) == SubSeq(s, i, Len(s))

IsSpace(c) == c \in {" ", "\n"}

\* the elements of a finite set of numbers, in increasing order
Ascending(S) ==
    [k \in 1..Cardinality(S) |-> CHOOSE x \in S : Cardinality({y \in S : y < x}) = k - 1]

\* str.split(): the maximal runs of non-whitespace characters, left to right
SplitWS(s) ==
    LET Fields(starts, ends) == [k \in DOMAIN starts |-> SubSeq(s, starts[k], ends[k])]
    IN  Fields(Ascending({i \in DOMAIN s :
                    ~IsSpace(s[i]) /\ (i = 1 \/ IsSpace(s[i-1]))}),
               Ascending({i \in DOMAIN s :
                    ~IsSpace(s[i]) /\ (i = Len(s) \/ IsSpace(s[i+1]))}))

\* str.split(sep) for a one-character sep: the fields between the
\* separators, empty fields kept
SplitOn(s, sep) ==
    LET Fields(seps) ==
            [k \in 1..(Len(seps) + 1) |->
                SubSeq(s, IF k = 1 THEN 1 ELSE seps[k-1] + 1,
                          IF k = Len(seps) + 1 THEN Len(s) ELSE seps[k] - 1)]
    IN  Fields(Ascending({i \in DOMAIN s : s[i] = sep}))

\* "".join(parts)
RECURSIVE Join(_)
Join(parts) == IF parts = <<>> THEN <<>> ELSE Head(parts) \o Join(Tail(parts))

\* str.replace(a, b) for one-character a and b
Replace(s, a, b) == [i \in DOMAIN s |-> IF s[i] = a THEN b ELSE s[i]]

\* os.path.basename(p): what follows the last "/"
Basename(p) ==
    LET slashes == {i \in DOMAIN p : p[i] = "/"}
    IN  IF slashes = {} THEN p
        ELSE From(p, 1 + CHOOSE i \in slashes : \A j \in slashes : j <= i)

\* s < t for str: code point order, a proper prefix first
StrLess(s, t) ==
    LET diff == {i \in DOMAIN s \cap DOMAIN t : s[i] # t[i]}
    IN  IF diff = {} THEN Len(s) < Len(t)
        ELSE LET i == CHOOSE k \in diff : \A j \in diff : k <= j
             IN  Ord(s[i]) < Ord(t[i])

\* sorted(l)
Sorted(l) == SortSeq(l, StrLess)

\* x in l
In(x, l) == \E i \in DOMAIN l : l[i] = x

\* a remove that leaves the list alone when x is not in it
ListRemoveSilent(l, x) ==
    IF In(x, l)
    THEN LET i == CHOOSE k \in DOMAIN l : l[k] = x /\ \A j \in 1..(k-1) : l[j] # x
         IN  [ok |-> TRUE, list |-> SubSeq(l, 1, i-1) \o SubSeq(l, i+1, Len(l))]
    ELSE [ok |-> TRUE, list |-> l]

\* list.remove(x): the first occurrence is removed; ValueError when there is none
ListRemove(l, x) ==
    IF In(x, l)
    THEN LET i == CHOOSE k \in DOMAIN l : l[k] = x /\ \A j \in 1..(k-1) : l[j] # x
         IN  [ok |-> TRUE, list |-> SubSeq(l, 1, i-1) \o SubSeq(l, i+1, Len(l))]
    ELSE [ok |-> FALSE, list |-> l]

----------------------------------------------------------------------------
(* dict: an insertion-ordered sequence of <<key, value>> pairs.            *)

Keys(d) == {d[i][1] : i \in DOMAIN d}
HasKey(d, k) == k \in Keys(d)
Get(d, k) == d[CHOOSE i \in DOMAIN d : d[i][1] = k][2]

\* d[k] = v: a new key is appended, an old key keeps its place and takes v
DictSet(d, k, v) ==
    IF HasKey(d, k)
    THEN [i \in DOMAIN d |-> IF d[i][1] = k THEN <<k, v>> ELSE d[i]]
    ELSE Append(d, <<k, v>>)

\* del d[k]
DictDel(d, k) == SelectSeq(d, LAMBDA e : e[1] # k)

----------------------------------------------------------------------------
(* The files the script reads.                                             *)

\* the header file: whether it is there, and its lines
File(lines) == [exists |-> TRUE, lines |-> lines]
Missing == [exists |-> FALSE, lines |-> <<>>]

Define == <<"#","d","e","f","i","n","e">>
ScriptPrefix == <<"U","C","D","N","_","S","C","R","I","P","T","_">>
FontDir == <<"r","e","s","o","u","r","c","e","s","/","f","o","n","t","s","/","n","o","t","o","/">>

blacklist == <<
    <<"U","C","D","N","_","S","C","R","I","P","T","_","U","N","K","N","O","W","N">>,
    <<"U","C","D","N","_","S","C","R","I","P","T","_","I","N","H","E","R","I","T","E","D">>,
    <<"U","C","D","N","_","S","C","R","I","P","T","_","C","O","M","M","O","N">>,
    <<"U","C","D","N","_","S","C","R","I","P","T","_","L","A","T","I","N">>,
    <<"U","C","D","N","_","S","C","R","I","P","T","_","G","R","E","E","K">>,
    <<"U","C","D","N","_","S","C","R","I","P","T","_","C","Y","R","I","L","L","I","C">>,
    <<"U","C","D","N","_","S","C","R","I","P","T","_","H","I","R","A","G","A","N","A">>,
    <<"U","C","D","N","_","S","C","R","I","P","T","_","K","A","T","A","K","A","N","A">>,
    <<"U","C","D","N","_","S","C","R","I","P","T","_","B","O","P","O","M","O","F","O">>,
    <<"U","C","D","N","_","S","C","R","I","P","T","_","H","A","N">>,
    <<"U","C","D","N","_","S","C","R","I","P","T","_","H","A","N","G","U","L">>,
    <<"U","C","D","N","_","S","C","R","I","P","T","_","B","R","A","I","L","L","E">>,
    <<"U","C","D","N","_","S","C","R","I","P","T","_","M","E","R","O","I","T","I","C","_","C","U","R","S","I","V","E">>,
    <<"U","C","D","N","_","S","C","R","I","P","T","_","M","E","R","O","I","T","I","C","_","H","I","E","R","O","G","L","Y","P","H","S">>,
    <<"U","C","D","N","_","S","C","R","I","P","T","_","S","Y","R","I","A","C">> >>

ARABIC == <<"U","C","D","N","_","S","C","R","I","P","T","_","A","R","A","B","I","C">>
ARA_BIC == <<"U","C","D","N","_","S","C","R","I","P","T","_","A","R","A","_","B","I","C">>
LATIN == <<"U","C","D","N","_","S","C","R","I","P","T","_","L","A","T","I","N">>

\* a header line defining `name`
DefineLine(name) == Define \o <<" ">> \o name \o <<" ","1","\n">>

\* the lines a header may hold besides the blacklisted definitions: two scripts
\* whose candidate fonts coincide once lower-cased, a second definition of a
\* blacklisted script, and a "#define" with no name
ExtraLines == {
    DefineLine(ARABIC),
    DefineLine(ARA_BIC),
    DefineLine(LATIN),
    <<"#","d","e","f","i","n","e","\n">> }

\* the include guard of ucdn.h: a definition that is no script, and the line
\* that closes it, which is no definition
GuardOpen == <<"#","d","e","f","i","n","e"," ","U","C","D","N","_","H","\n">>
GuardClose == <<"#","e","n","d","i","f","\n">>

\* the definitions of the blacklisted scripts, in the order of the blacklist
BlacklistLines == [i \in DOMAIN blacklist |-> DefineLine(blacklist[i])]

\* s without its i-th element
Without(s, i) == SubSeq(s, 1, i-1) \o SubSeq(s, i+1, Len(s))

\* the sequences over S of length at most n
SeqUpTo(S, n) == UNION {[1..k -> S] : k \in 0..n}

\* the header files of the model: inside the include guard, up to MaxExtra
\* extra lines, then the blacklisted definitions, all of them or all but one
Headers ==
    {<<GuardOpen>> \o pre \o body \o <<GuardClose>> :
        pre \in SeqUpTo(ExtraLines, MaxExtra),
        body \in {BlacklistLines} \cup {Without(BlacklistLines, i) : i \in DOMAIN BlacklistLines}}

SerifArabicOtf == <<"N","o","t","o","S","e","r","i","f","A","r","a","b","i","c","-","R","e","g","u","l","a","r",".","o","t","f">>
SansArabicOtf == <<"N","o","t","o","S","a","n","s","A","r","a","b","i","c","-","R","e","g","u","l","a","r",".","o","t","f">>
SansArabicTtf == <<"N","o","t","o","S","a","n","s","A","r","a","b","i","c","-","R","e","g","u","l","a","r",".","t","t","f">>
SansARABICOtf == <<"N","o","t","o","S","a","n","s","A","R","A","B","I","C","-","R","e","g","u","l","a","r",".","o","t","f">>
SansXyzzyOtf == <<"N","o","t","o","S","a","n","s","X","y","z","z","y","-","R","e","g","u","l","a","r",".","o","t","f">>

\* the names a directory entry may have: fonts of a script of the header, one of
\* them twice in different case, a font of no script, and a file that is no font
FileNames == {
    SerifArabicOtf, SansArabicOtf, SansArabicTtf, SansARABICOtf,
    SansXyzzyOtf, <<"L","I","C","E","N","S","E">> }

\* the directory listings of the model: up to MaxFonts distinct names, in any order
Listings ==
    {l \in SeqUpTo(FileNames, MaxFonts) : \A i, j \in DOMAIN l : i # j => l[i] # l[j]}

----------------------------------------------------------------------------
(* The script.                                                             *)

\* lines 7-11: the names of the "#define UCDN_SCRIPT_*" lines, in file order;
\* line.split()[1] raises IndexError on a "#define" line with no second field
Extract(lines) ==
    LET IsDefine(line) == StartsWith(line, Define)
        IsScript(name) == StartsWith(name, ScriptPrefix)
        Fields(defs) == [i \in DOMAIN defs |-> SplitWS(defs[i])]
        Names(fields) ==
            IF \E i \in DOMAIN fields : Len(fields[i]) < 2
            THEN [ok |-> FALSE, scripts |-> <<>>]
            ELSE [ok |-> TRUE,
                  scripts |-> SelectSeq([i \in DOMAIN fields |-> fields[i][2]], IsScript)]
    IN  Names(Fields(SelectSeq(lines, IsDefine)))

Init ==
    /\ pc = "read"
    /\ err = ""
    /\ header = File(<<>>)
    /\ dirState = "ok"
    /\ listing = <<>>
    /\ scripts = <<>>
    /\ bi = 1
    /\ fonts = <<>>
    /\ lower = <<>>
    /\ unused = <<>>
    /\ si = 1
    /\ ui = 1
    /\ out = <<>>

\* lines 5-11: open() raises FileNotFoundError when the header is missing
ReadHeader ==
    /\ pc = "read"
    /\ \E h \in {File(l) : l \in Headers} \cup {Missing} :
        /\ header' = h
        /\ IF ~h.exists
           THEN pc' = "abort" /\ err' = "FileNotFoundError" /\ scripts' = scripts
           ELSE IF ~Extract(h.lines).ok
           THEN pc' = "abort" /\ err' = "IndexError" /\ scripts' = scripts
           ELSE pc' = "blacklist" /\ err' = err /\ scripts' = Extract(h.lines).scripts
    /\ UNCHANGED <<dirState, listing, bi, fonts, lower, unused, si, ui, out>>

\* lines 33-34, one turn of the loop
RemoveBlacklisted ==
    /\ pc = "blacklist"
    /\ bi <= Len(blacklist)
    /\ LET r == ListRemove(scripts, blacklist[bi])
       IN  IF r.ok
           THEN scripts' = r.list /\ bi' = bi + 1 /\ pc' = pc /\ err' = err
           ELSE scripts' = scripts /\ bi' = bi /\ pc' = "abort" /\ err' = "ValueError"
    /\ UNCHANGED <<header, dirState, listing, fonts, lower, unused, si, ui, out>>

\* fnmatch of a directory entry against "*.?tf"; glob skips the hidden entries
GlobMatch(name) ==
    /\ Len(name) >= 4
    /\ name[1] # "."
    /\ name[Len(name) - 3] = "."
    /\ name[Len(name) - 1] = "t"
    /\ name[Len(name)] = "f"

\* line 36: glob.glob("resources/fonts/noto/*.?tf"): the matching entries, in
\* the order of the listing, each joined to the directory; a directory that is
\* missing or cannot be listed gives the empty list, without an exception
Glob(state, entries) ==
    IF state # "ok" THEN <<>>
    ELSE LET hits == SelectSeq(entries, GlobMatch)
         IN  [i \in DOMAIN hits |-> FontDir \o hits[i]]

\* line 42: {f.lower(): os.path.basename(f) for f in fonts}
RECURSIVE BuildLower(_, _)
BuildLower(fs, d) ==
    IF fs = <<>> THEN d
    ELSE BuildLower(Tail(fs), DictSet(d, Lower(Head(fs)), Basename(Head(fs))))

\* the keys of a dict, in its order
KeyList(d) == [i \in DOMAIN d |-> d[i][1]]

\* lines 36-43 with a glob that raises on a directory it cannot list
EnumerateFontsRaising ==
    /\ pc = "blacklist"
    /\ bi > Len(blacklist)
    /\ \E st \in {"ok", "missing", "unreadable"} :
       \E l \in (IF st = "ok" THEN Listings ELSE {<<>>}) :
       \E fs \in {Glob(st, l)} :
       \E d \in {BuildLower(fs, <<>>)} :
        /\ dirState' = st
        /\ listing' = l
        /\ fonts' = fs
        /\ lower' = d
        /\ unused' = Sorted(KeyList(d))
        /\ pc' = IF st = "ok" THEN "run" ELSE "abort"
        /\ err' = IF st = "ok" THEN err
                  ELSE IF st = "missing" THEN "FileNotFoundError" ELSE "PermissionError"
    /\ UNCHANGED <<header, scripts, bi, si, ui, out>>

\* lines 36-43
EnumerateFonts ==
    /\ pc = "blacklist"
    /\ bi > Len(blacklist)
    /\ \E st \in {"ok", "missing", "unreadable"} :
       \E l \in (IF st = "ok" THEN Listings ELSE {<<>>}) :
       \E fs \in {Glob(st, l)} :
       \E d \in {BuildLower(fs, <<>>)} :
        /\ dirState' = st
        /\ listing' = l
        /\ fonts' = fs
        /\ lower' = d
        /\ unused' = Sorted(KeyList(d))
    /\ pc' = "run"
    /\ UNCHANGED <<err, header, scripts, bi, si, ui, out>>

\* line 48: the line printed for a match
ReturnLine(us, nn) == <<"c","a","s","e"," ">> \o us \o <<":"," ","R","E","T","U","R","N","(","n","o","t","o","_">> \o nn \o <<")",";">>

\* line 63: the line printed when nothing matched
BreakLine(us) == <<"c","a","s","e"," ">> \o us \o <<":"," ","b","r","e","a","k",";">>

\* line 68
UnmappedLine(name) == <<"/","/"," ","u","n","m","a","p","p","e","d"," ","f","o","n","t",":">> \o <<" ">> \o name

\* line 72
UnusedLine(name) == <<"/","/"," ","u","n","u","s","e","d"," ","f","o","n","t"," ","f","i","l","e",":">> \o <<" ">> \o name

\* casefont without `del lower[n]`: a matched font stays in the index
casefontNoDel(us, ss, n, lw) ==
    IF HasKey(lw, n)
    THEN LET nn == Replace(Replace(Get(lw, n), ".", "_"), "-", "_")
         IN  [ret |-> TRUE, printed |-> <<ReturnLine(us, nn)>>, lower |-> lw]
    ELSE [ret |-> FALSE, printed |-> <<>>, lower |-> lw]

\* casefont without the second replace: the "-" of the basename is kept
casefontDotOnly(us, ss, n, lw) ==
    IF HasKey(lw, n)
    THEN LET nn == Replace(Get(lw, n), ".", "_")
         IN  [ret |-> TRUE, printed |-> <<ReturnLine(us, nn)>>, lower |-> DictDel(lw, n)]
    ELSE [ret |-> FALSE, printed |-> <<>>, lower |-> lw]

\* lines 45-51: casefont(us, ss, n) on the dict lw: what it returns, what it
\* prints and the dict it leaves
casefont(us, ss, n, lw) ==
    IF HasKey(lw, n)
    THEN LET nn == Replace(Replace(Get(lw, n), ".", "_"), "-", "_")
         IN  [ret |-> TRUE, printed |-> <<ReturnLine(us, nn)>>, lower |-> DictDel(lw, n)]
    ELSE [ret |-> FALSE, printed |-> <<>>, lower |-> lw]

\* line 54: the CamelCase name of a script
ScriptName(us) ==
    LET parts == From(SplitOn(us, "_"), 3)
    IN  Join([i \in DOMAIN parts |-> Capitalize(parts[i])])

\* the candidate paths with Sans tried before Serif
FontListSansFirst(ss) == <<
    FontDir \o <<"N","o","t","o","S","a","n","s">> \o ss \o <<"-","R","e","g","u","l","a","r",".","o","t","f">>,
    FontDir \o <<"N","o","t","o","S","e","r","i","f">> \o ss \o <<"-","R","e","g","u","l","a","r",".","o","t","f">>,
    FontDir \o <<"N","o","t","o","S","a","n","s">> \o ss \o <<"-","R","e","g","u","l","a","r",".","t","t","f">>,
    FontDir \o <<"N","o","t","o","S","e","r","i","f">> \o ss \o <<"-","R","e","g","u","l","a","r",".","t","t","f">> >>

\* lines 55-60: the four candidate paths, in the order they are tried
FontList(ss) == <<
    FontDir \o <<"N","o","t","o","S","e","r","i","f">> \o ss \o <<"-","R","e","g","u","l","a","r",".","o","t","f">>,
    FontDir \o <<"N","o","t","o","S","a","n","s">> \o ss \o <<"-","R","e","g","u","l","a","r",".","o","t","f">>,
    FontDir \o <<"N","o","t","o","S","e","r","i","f">> \o ss \o <<"-","R","e","g","u","l","a","r",".","t","t","f">>,
    FontDir \o <<"N","o","t","o","S","a","n","s">> \o ss \o <<"-","R","e","g","u","l","a","r",".","t","t","f">> >>

\* line 61: any(casefont(us, ss, font.lower()) for font in list): the
\* generator is consumed up to the first call that returns True
RECURSIVE AnyCasefont(_, _, _, _)
AnyCasefont(us, ss, list, lw) ==
    IF list = <<>> THEN [ret |-> FALSE, printed |-> <<>>, lower |-> lw]
    ELSE LET r == casefont(us, ss, Lower(Head(list)), lw)
         IN  IF r.ret THEN r
             ELSE LET rest == AnyCasefont(us, ss, Tail(list), r.lower)
                  IN  [ret |-> rest.ret, printed |-> r.printed \o rest.printed,
                       lower |-> rest.lower]

\* lines 64-65: each candidate that is in `unused` is removed from it
RECURSIVE Prune(_, _)
Prune(un, list) ==
    IF list = <<>> THEN un
    ELSE Prune(IF In(Lower(Head(list)), un)
               THEN ListRemove(un, Lower(Head(list))).list
               ELSE un,
               Tail(list))

\* the loop body with `if found:` for `if not found:`
LoopBodyInverted(us, lw, un) ==
    LET ss == ScriptName(us)
        list == FontList(ss)
        found == AnyCasefont(us, ss, list, lw)
    IN  [lower |-> found.lower,
         printed |-> IF found.ret
                     THEN found.printed \o <<BreakLine(us)>>
                     ELSE found.printed,
         unused |-> Prune(un, list)]

\* the loop body with lines 64-65 run only when nothing matched
LoopBodyPruneUnlessFound(us, lw, un) ==
    LET ss == ScriptName(us)
        list == FontList(ss)
        found == AnyCasefont(us, ss, list, lw)
    IN  [lower |-> found.lower,
         printed |-> IF ~found.ret
                     THEN found.printed \o <<BreakLine(us)>>
                     ELSE found.printed,
         unused |-> IF found.ret THEN un ELSE Prune(un, list)]

\* lines 54-65: one turn of the main loop for the identifier us
LoopBody(us, lw, un) ==
    LET ss == ScriptName(us)
        list == FontList(ss)
        found == AnyCasefont(us, ss, list, lw)
    IN  [lower |-> found.lower,
         printed |-> IF ~found.ret
                     THEN found.printed \o <<BreakLine(us)>>
                     ELSE found.printed,
         unused |-> Prune(un, list)]

\* lines 53-65, one turn of the loop
MatchAndEmit ==
    /\ pc = "run"
    /\ si <= Len(scripts)
    /\ \E r \in {LoopBody(scripts[si], lower, unused)} :
           /\ lower' = r.lower
           /\ unused' = r.unused
           /\ out' = out \o r.printed
    /\ si' = si + 1
    /\ UNCHANGED <<pc, err, header, dirState, listing, scripts, bi, fonts, ui>>

\* lines 67-68, one turn of the loop; lower[f] raises KeyError on a key that
\* is not in the dict
ReportUnmapped ==
    /\ pc = "run"
    /\ si > Len(scripts)
    /\ ui <= Len(unused)
    /\ IF HasKey(lower, unused[ui])
       THEN /\ out' = Append(out, UnmappedLine(Get(lower, unused[ui])))
            /\ ui' = ui + 1
            /\ UNCHANGED <<pc, err>>
       ELSE /\ pc' = "abort"
            /\ err' = "KeyError"
            /\ UNCHANGED <<out, ui>>
    /\ UNCHANGED <<header, dirState, listing, scripts, bi, fonts, lower, unused, si>>

\* the report with `if f in unused:` for `if f not in unused:`
UnusedReportInverted(d, un) ==
    LET left == SelectSeq(d, LAMBDA e : In(e[1], un))
    IN  [i \in DOMAIN left |-> UnusedLine(left[i][2])]

\* lines 70-72: the lines printed for the dict d and the list un
UnusedReport(d, un) ==
    LET left == SelectSeq(d, LAMBDA e : ~In(e[1], un))
    IN  [i \in DOMAIN left |-> UnusedLine(left[i][2])]

\* lines 70-72, the whole loop, and the end of the script
ReportUnused ==
    /\ pc = "run"
    /\ si > Len(scripts)
    /\ ui > Len(unused)
    /\ out' = out \o UnusedReport(lower, unused)
    /\ pc' = "done"
    /\ UNCHANGED <<err, header, dirState, listing, scripts, bi, fonts, lower, unused, si, ui>>

Next ==
    \/ ReadHeader
    \/ RemoveBlacklisted
    \/ EnumerateFonts
    \/ MatchAndEmit
    \/ ReportUnmapped
    \/ ReportUnused

Spec == Init /\ [][Next]_vars

----------------------------------------------------------------------------
(* The vocabulary of the properties, written from the specification.       *)

\* the blacklist removal has completed
Removed == pc \in {"run", "done"} \/ (pc = "blacklist" /\ bi > Len(blacklist))

\* the working sequence is being, or has been, iterated
Running == pc \in {"run", "done"}

\* the transition is one turn of the match-and-emit loop
MatchStep == pc = "run" /\ si <= Len(scripts) /\ si' = si + 1

\* a basename with every "." and every "-" replaced by "_"
Transformed(b) == [i \in DOMAIN b |-> IF b[i] \in {".", "-"} THEN "_" ELSE b[i]]

ReturnText(us, b) == <<"c","a","s","e"," ">> \o us \o <<":"," ","R","E","T","U","R","N","(","n","o","t","o","_">> \o Transformed(b) \o <<")",";">>
BreakText(us) == <<"c","a","s","e"," ">> \o us \o <<":"," ","b","r","e","a","k",";">>
UnmappedText(b) == <<"/","/"," ","u","n","m","a","p","p","e","d"," ","f","o","n","t",":"," ">> \o b
UnusedText(b) == <<"/","/"," ","u","n","u","s","e","d"," ","f","o","n","t"," ","f","i","l","e",":"," ">> \o b

\* the four candidate keys of an identifier, in the fixed order
\* Serif-otf, Sans-otf, Serif-ttf, Sans-ttf
CandidateKey(us, style, ext) ==
    Lower(FontDir \o <<"N","o","t","o">> \o style \o ScriptName(us) \o <<"-","R","e","g","u","l","a","r",".">> \o ext)
CandidateKeys(us) == <<
    CandidateKey(us, <<"S","e","r","i","f">>, <<"o","t","f">>),
    CandidateKey(us, <<"S","a","n","s">>, <<"o","t","f">>),
    CandidateKey(us, <<"S","e","r","i","f">>, <<"t","t","f">>),
    CandidateKey(us, <<"S","a","n","s">>, <<"t","t","f">>) >>
Range(seq) == {seq[i] : i \in DOMAIN seq}
CandidateSet(us) == Range(CandidateKeys(us))

\* the candidate keys of the whole working sequence
AllCandidates == UNION {CandidateSet(scripts[i]) : i \in DOMAIN scripts}

\* the font index as first built from the enumerated fonts
Index0 == BuildLower(fonts, <<>>)

\* a line is a RETURN line, "case <ID>: RETURN(noto_<symbol>);", and the
\* symbol it references
ReturnMark == <<":"," ","R","E","T","U","R","N","(","n","o","t","o","_">>
FirstColon(l) ==
    LET colons == {p \in DOMAIN l : l[p] = ":"}
    IN  CHOOSE p \in colons : \A q \in colons : p <= q
IsReturn(l) ==
    /\ StartsWith(l, <<"c","a","s","e"," ">>)
    /\ \E p \in DOMAIN l : l[p] = ":"
    /\ StartsWith(From(l, FirstColon(l)), ReturnMark)
SymbolOf(l) == SubSeq(l, FirstColon(l) + Len(ReturnMark), Len(l) - 2)

\* for each line of the output, the symbol it references, if it is a RETURN line
ReturnSymbols ==
    [i \in DOMAIN out |-> IF IsReturn(out[i]) THEN <<SymbolOf(out[i])>> ELSE <<>>]

\* the number of lines of the output that are in the set L
Count(L) == Cardinality({i \in DOMAIN out : out[i] \in L})

SerifArabicKey == Lower(FontDir \o SerifArabicOtf)
SansArabicKey == Lower(FontDir \o SansArabicOtf)

----------------------------------------------------------------------------
\* C1: once the blacklist removal has completed, no blacklisted name is left
\* anywhere in the working sequence, whatever the header holds.
C1_NoBlacklistedNameRemains ==
    Removed => \A i \in DOMAIN blacklist : ~In(blacklist[i], scripts)

\* C2, as stated: every identifier of the working sequence resolves to the
\* first of its four candidates that is present in the font directory.
C2_FirstPresentInDirectory ==
    Running =>
        \A idx \in {Index0} : \A i \in 1..(si - 1) :
            LET us == scripts[i]
                present == SelectSeq(CandidateKeys(us), LAMBDA c : HasKey(idx, c))
            IN  present # <<>> => out[i] = ReturnText(us, Get(idx, present[1]))

\* C2, amended: every identifier resolves to the first of its four candidates,
\* in the order Serif-otf, Sans-otf, Serif-ttf, Sans-ttf, that is still in the
\* font index when the identifier is processed, and that font leaves the index;
\* with both Arabic otf fonts in the index, UCDN_SCRIPT_ARABIC gets Serif/otf.
C2_FirstInLiveIndex ==
    [][MatchStep =>
        \A us \in {scripts[si]} :
        \A live \in {SelectSeq(CandidateKeys(scripts[si]), LAMBDA c : HasKey(lower, c))} :
            /\ live # <<>> =>
                /\ out' = Append(out, ReturnText(us, Get(lower, live[1])))
                /\ Keys(lower') = Keys(lower) \ {live[1]}
            /\ (us = ARABIC /\ HasKey(lower, SerifArabicKey) /\ HasKey(lower, SansArabicKey)) =>
                out' = Append(out,
                    <<"c","a","s","e"," ","U","C","D","N","_","S","C","R","I","P","T","_","A","R","A","B","I","C",":"," ","R","E","T","U","R","N","(","n","o","t","o","_","N","o","t","o","S","e","r","i","f","A","r","a","b","i","c","_","R","e","g","u","l","a","r","_","o","t","f",")",";">>)
    ]_vars

\* C2, witness: UCDN_SCRIPT_ARABIC took Serif/otf and the next identifier, with
\* the same candidates, took Sans/otf, the first one left in the index.
C2_Witness ==
    /\ pc = "done"
    /\ \E i \in 1..(Len(scripts) - 1) :
        /\ scripts[i] = ARABIC
        /\ CandidateKeys(scripts[i + 1]) = CandidateKeys(ARABIC)
        /\ out[i] = <<"c","a","s","e"," ","U","C","D","N","_","S","C","R","I","P","T","_","A","R","A","B","I","C",":"," ","R","E","T","U","R","N","(","n","o","t","o","_","N","o","t","o","S","e","r","i","f","A","r","a","b","i","c","_","R","e","g","u","l","a","r","_","o","t","f",")",";">>
        /\ out[i + 1] = ReturnText(scripts[i + 1], SansArabicOtf)

\* C3: no two RETURN lines of the output reference the same symbol, and no
\* font of the index is referenced by more than one RETURN line.
C3_AtMostOneClaim ==
    \A syms \in {ReturnSymbols} : \A idx \in {Index0} :
        /\ \A i, j \in DOMAIN out :
            (i < j /\ syms[i] # <<>> /\ syms[j] # <<>>) => syms[i] # syms[j]
        /\ \A e \in DOMAIN idx :
            Cardinality({i \in DOMAIN out : syms[i] = <<Transformed(idx[e][2])>>}) <= 1

\* C3, witness: two distinct identifiers whose candidates coincide once
\* lower-cased have each claimed a font.
C3_Witness ==
    /\ pc = "done"
    /\ \E i, j \in DOMAIN scripts :
        /\ scripts[i] = ARABIC
        /\ scripts[j] = ARA_BIC
        /\ IsReturn(out[i])
        /\ IsReturn(out[j])

\* C4: when one of the four candidate keys of the identifier is in the font
\* index, the one line printed for it is "case <ID>: RETURN(noto_<T>);" with
\* <T> the basename the index holds for that key, "." and "-" turned into "_";
\* with only NotoSansArabic-Regular.ttf enumerated, UCDN_SCRIPT_ARABIC gets
\* "case UCDN_SCRIPT_ARABIC: RETURN(noto_NotoSansArabic_Regular_ttf);".
C4_ReturnLineFormat ==
    [][MatchStep =>
        \A us \in {scripts[si]} : \A hits \in {CandidateSet(scripts[si]) \cap Keys(lower)} :
            /\ hits # {} =>
                \E k \in hits : out' = Append(out, ReturnText(us, Get(lower, k)))
            /\ (us = ARABIC /\ lower = <<<<Lower(FontDir \o SansArabicTtf), SansArabicTtf>>>>) =>
                out' = Append(out,
                    <<"c","a","s","e"," ","U","C","D","N","_","S","C","R","I","P","T","_","A","R","A","B","I","C",":"," ","R","E","T","U","R","N","(","n","o","t","o","_","N","o","t","o","S","a","n","s","A","r","a","b","i","c","_","R","e","g","u","l","a","r","_","t","t","f",")",";">>)
    ]_vars

\* C4, witness: the run with only NotoSansArabic-Regular.ttf enumerated has
\* printed the line of the example.
C4_Witness ==
    /\ pc = "done"
    /\ fonts = <<FontDir \o SansArabicTtf>>
    /\ In(<<"c","a","s","e"," ","U","C","D","N","_","S","C","R","I","P","T","_","A","R","A","B","I","C",":"," ","R","E","T","U","R","N","(","n","o","t","o","_","N","o","t","o","S","a","n","s","A","r","a","b","i","c","_","R","e","g","u","l","a","r","_","t","t","f",")",";">>, out)

\* C5: when none of the four candidate keys of the identifier is in the font
\* index, exactly one line is printed for it, "case <ID>: break;", and the font
\* index is left as it was.
C5_BreakLine ==
    [][MatchStep =>
        \A us \in {scripts[si]} :
            CandidateSet(us) \cap Keys(lower) = {} =>
                /\ out' = Append(out, BreakText(us))
                /\ lower' = lower
    ]_vars

\* C5, witness: an identifier got its break line while the index held fonts.
C5_Witness ==
    /\ pc = "done"
    /\ lower # <<>>
    /\ \E i \in DOMAIN scripts : out[i] = BreakText(scripts[i])

\* C6: when a blacklisted name is absent from the identifiers extracted from
\* the header, the run aborts with ValueError during the blacklist removal,
\* having printed nothing: while the removal runs nothing is printed and the
\* names not yet removed are in `scripts` exactly when they were extracted; a
\* removal step whose name is absent ends the run with ValueError; and the run
\* goes on to the font enumeration only when every blacklisted name was
\* extracted.
C6_AbsentNameAborts ==
    /\ [](pc = "blacklist" =>
            \A ex \in {Extract(header.lines)} :
                /\ out = <<>>
                /\ \A j \in bi..Len(blacklist) :
                    In(blacklist[j], scripts) <=> In(blacklist[j], ex.scripts))
    /\ [][(pc = "blacklist" /\ bi <= Len(blacklist) /\ ~In(blacklist[bi], scripts))
            => (pc' = "abort" /\ err' = "ValueError" /\ out' = <<>>)]_vars
    /\ [][(pc = "blacklist" /\ pc' = "run")
            => \A ex \in {Extract(header.lines)} :
                \A i \in DOMAIN blacklist : In(blacklist[i], ex.scripts)]_vars

\* C6, witness: the run has aborted with ValueError on a header that lacks a
\* blacklisted name.
C6_Witness ==
    /\ pc = "abort"
    /\ err = "ValueError"
    /\ out = <<>>
    /\ \E ex \in {Extract(header.lines)} : ~In(LATIN, ex.scripts) /\ In(ARABIC, ex.scripts)

\* C7, as stated: a fonts directory that is missing or cannot be read aborts
\* the run with an I/O error, and no line is printed.
C7_MissingDirectoryAborts ==
    dirState # "ok" =>
        /\ pc = "abort"
        /\ err \in {"FileNotFoundError", "PermissionError"}
        /\ out = <<>>

\* C7, amended: only a missing header is fatal (FileNotFoundError, nothing
\* printed); a fonts directory that is missing or cannot be read enumerates no
\* font, and the run goes on to print "case <ID>: break;" for every identifier
\* of the working sequence and no diagnostic comment.
C7_MissingDirectoryIsEmpty ==
    /\ (pc # "read" /\ ~header.exists) =>
            (pc = "abort" /\ err = "FileNotFoundError" /\ out = <<>>)
    /\ dirState # "ok" =>
        /\ Running
        /\ err = ""
        /\ fonts = <<>>
        /\ lower = <<>>
        /\ unused = <<>>
        /\ out = [i \in 1..(si - 1) |-> BreakText(scripts[i])]
        /\ pc = "done" => si = Len(scripts) + 1

\* C7, witness: a run over a missing fonts directory has ended normally with
\* a break line for each identifier.
C7_Witness ==
    /\ pc = "done"
    /\ dirState = "missing"
    /\ Len(out) = 2
    /\ out[1] = <<"c","a","s","e"," ","U","C","D","N","_","S","C","R","I","P","T","_","A","R","A","B","I","C",":"," ","b","r","e","a","k",";">>

\* C8: at the end of the run, every enumerated font whose lower-cased path is
\* no candidate of any identifier of the working sequence appears exactly once
\* in the "// unmapped font:" report, after all case lines, and does not appear
\* in the "// unused font file:" report.
C8_UnmappedFontReportedOnce ==
    pc = "done" =>
        \A cands \in {AllCandidates} : \A f \in DOMAIN fonts :
            Lower(fonts[f]) \notin cands =>
                /\ Count({UnmappedText(Basename(fonts[f]))}) = 1
                /\ \A i \in DOMAIN out :
                    out[i] = UnmappedText(Basename(fonts[f])) => i > Len(scripts)
                /\ Count({UnusedText(Basename(fonts[f]))}) = 0

\* C9: at the end of the run, the "// unused font file:" report lists exactly
\* the entries still in the font index whose key is no longer in the unused
\* pool, each once; an entry of the index is listed if and only if its key is a
\* candidate of some identifier of the working sequence and no RETURN line
\* references it.
C9_UnusedReport ==
    pc = "done" =>
        \A idx \in {Index0} : \A cands \in {AllCandidates} :
            /\ \A e \in DOMAIN idx :
                LET k == idx[e][1]
                    b == idx[e][2]
                    listed == Count({UnusedText(b)})
                    selected == \E i \in DOMAIN scripts : In(ReturnText(scripts[i], b), out)
                IN  /\ listed <= 1
                    /\ listed = 1 <=> (HasKey(lower, k) /\ ~In(k, unused))
                    /\ listed = 1 <=> (k \in cands /\ ~selected)
            /\ \A i \in DOMAIN out :
                StartsWith(out[i], <<"/","/"," ","u","n","u","s","e","d"," ","f","o","n","t"," ","f","i","l","e",":">>) =>
                    \E e \in DOMAIN idx : out[i] = UnusedText(idx[e][2])

\* C9, witness: the Sans/otf font of a script whose Serif/otf font was taken
\* is in the unused report.
C9_Witness ==
    /\ pc = "done"
    /\ In(<<"c","a","s","e"," ","U","C","D","N","_","S","C","R","I","P","T","_","A","R","A","B","I","C",":"," ","R","E","T","U","R","N","(","n","o","t","o","_","N","o","t","o","S","e","r","i","f","A","r","a","b","i","c","_","R","e","g","u","l","a","r","_","o","t","f",")",";">>, out)
    /\ In(UnusedText(SansArabicOtf), out)

\* C10: throughout the main loop and the reports, every key of the unused pool
\* is a key of the font index and no key deleted from the index is in the
\* pool; the report never fails on a lookup; at the end of the run every key
\* of the first font index is in exactly one line of the output: a RETURN
\* line, an unmapped comment or an unused comment.
C10_EveryKeyAccountedOnce ==
    \A idx \in {Index0} :
        /\ Running =>
            /\ \A i \in DOMAIN unused : HasKey(lower, unused[i])
            /\ \A e \in DOMAIN idx :
                ~HasKey(lower, idx[e][1]) => ~In(idx[e][1], unused)
        /\ err # "KeyError"
        /\ pc = "done" =>
            \A e \in DOMAIN idx :
                LET b == idx[e][2]
                IN  Count({ReturnText(scripts[i], b) : i \in DOMAIN scripts}
                          \cup {UnmappedText(b), UnusedText(b)}) = 1

\* C10, witness: a run has ended with one font in a RETURN line, one in the
\* unmapped report and one in the unused report.
C10_Witness ==
    /\ pc = "done"
    /\ \E idx \in {Index0} :
        /\ Len(idx) = 3
        /\ \E e \in DOMAIN idx : \E i \in DOMAIN scripts :
                In(ReturnText(scripts[i], idx[e][2]), out)
        /\ \E e \in DOMAIN idx : In(UnmappedText(idx[e][2]), out)
        /\ \E e \in DOMAIN idx : In(UnusedText(idx[e][2]), out)

=============================================================================
